---- MODULE Spec2Model ----
(***************************************************************************)
(* Model of the containers of the data-structures repository.              *)
(*                                                                         *)
(* Part 1: SeparateChainingHashTable and its iterator                      *)
(*   src/hash_table/src/separate_chaining_hash_table/mod.rs                *)
(*   src/hash_table/src/separate_chaining_hash_table/entry.rs              *)
(*   src/hash_table/src/separate_chaining_hash_table/iterator.rs           *)
(* Part 2: DynamicArray                                                    *)
(*   src/array/src/dynamic_array/mod.rs                                    *)
(*                                                                         *)
(* Rust indexes from 0, TLA+ sequences from 1: every index of the model is *)
(* the Rust index, and At(s, i) reads element i of a Vec or boxed slice.   *)
(***************************************************************************)
EXTENDS Integers, Sequences, FiniteSets, TLC

(***************************************************************************)
(* Bounds of the model.                                                    *)
(***************************************************************************)
\* Largest bucket count given to new() and rehashing().
MaxBuckets == 3
\* Values stored in the table are 1..MaxVal (T is generic in the source).
MaxVal == 2

(***************************************************************************)
(* Width of usize in bits (mod.rs:149, `let mut h: usize`).  It depends on  *)
(* the target; 16 is the narrowest width Rust supports, and it lets the    *)
(* wraparound of wrapping_add happen on keys of a few hundred bytes.       *)
(***************************************************************************)
UsizeBits == 16
UsizeModulus == 2 ^ UsizeBits

\* Number of bytes the model's evaluation of the hash loop handles per block.
HashBlock == 16

Values == 1 .. MaxVal
\* "No value" in the records of the model (never a stored value).
NoValue == 0

(***************************************************************************)
(* Keys.  A key is a Rust String; the model names each key and gives its   *)
(* UTF-8 bytes, as String::as_bytes does.  "01" and "10" are the colliding *)
(* keys of the demo (lib.rs:18-19).  "LongA" and "LongB" are one '<' and   *)
(* 170 times U+00FF (bytes C3 BF) in two different orders: their byte sum  *)
(* is 65680, which exceeds a 16 bit usize and wraps to 144.                *)
(***************************************************************************)
\* 170 times U+00FF: the bytes C3 BF, 170 times.
LongRun == [i \in 1 .. 340 |-> IF i % 2 = 1 THEN 195 ELSE 191]

Keys == {"01", "10", "LongA", "LongB"}

as_bytes ==
    [k \in Keys |->
        CASE k = "01" -> <<48, 49>>
          [] k = "10" -> <<49, 48>>
          [] k = "LongA" -> <<60>> \o LongRun
          [] k = "LongB" -> LongRun \o <<60>>]

(***************************************************************************)
(* usize::wrapping_add and SeparateChainingHashTable::hash (mod.rs:148).   *)
(***************************************************************************)
wrapping_add(h, val) == (h + val) % UsizeModulus

\* The loop of hash (mod.rs:150-152): hash_block is h after the bytes lo+1 .. n
\* have been added, in order, to the h that the bytes 1 .. lo left.
RECURSIVE hash_block(_, _, _, _)
hash_block(bytes, lo, n, h) ==
    IF n = lo THEN h ELSE wrapping_add(hash_block(bytes, lo, n - 1, h), bytes[n])

\* The loop is evaluated in blocks of HashBlock bytes.  hash_resume continues
\* it over the bytes lo+1 .. n from the h the earlier blocks left; its test on
\* h (a usize) makes the evaluation finish those blocks before it starts this
\* one, which keeps the recursion shallow.  Every byte is added in the order
\* of the source, each with wrapping_add.
hash_resume(bytes, lo, n, h) ==
    IF h < UsizeModulus THEN hash_block(bytes, lo, n, h) ELSE h

\* hash_loop is h after the first n bytes.
RECURSIVE hash_loop(_, _)
hash_loop(bytes, n) ==
    IF n = 0 THEN 0
    ELSE hash_resume(bytes, ((n - 1) \div HashBlock) * HashBlock, n,
                     hash_loop(bytes, ((n - 1) \div HashBlock) * HashBlock))

\* A hash that weighs each byte by its position: not the sum of the bytes.
RECURSIVE hash_positional_block(_, _, _, _)
hash_positional_block(bytes, lo, n, h) ==
    IF n = lo THEN h
    ELSE wrapping_add(2 * hash_positional_block(bytes, lo, n - 1, h), bytes[n])
hash_positional_resume(bytes, lo, n, h) ==
    IF h < UsizeModulus THEN hash_positional_block(bytes, lo, n, h) ELSE h
RECURSIVE hash_positional_loop(_, _)
hash_positional_loop(bytes, n) ==
    IF n = 0 THEN 0
    ELSE hash_positional_resume(bytes, ((n - 1) \div HashBlock) * HashBlock, n,
             hash_positional_loop(bytes, ((n - 1) \div HashBlock) * HashBlock))
hash_positional(bytes) == hash_positional_loop(bytes, Len(bytes))

\* hash (mod.rs:148-154)
hash(bytes) == hash_loop(bytes, Len(bytes))

\* hash of each key of the model, computed once.
key_hash == [k \in Keys |-> hash(as_bytes[k])]

(***************************************************************************)
(* Entry (entry.rs)                                                        *)
(***************************************************************************)
Entry(key, value) == [key |-> key, value |-> value]
compare_key(entry, key) == entry.key = key

At(s, i) == s[i + 1]

(***************************************************************************)
(* State of one SeparateChainingHashTable, and the record of the last call *)
(***************************************************************************)
VARIABLES
    buckets,           \* Box<[Vec<Entry<T>>]>: sequence of chains
    entries_len,       \* usize
    panic,             \* "none", or the panic that aborted the program
    last,              \* the last call: operation, arguments, result
    prev_buckets,      \* buckets before the last call
    prev_entries_len,  \* entries_len before the last call
    iterator,          \* the SeparateChainingHashTableIterator borrowing the table
    yielded            \* the items that iterator has returned so far

(***************************************************************************)
(* State of one DynamicArray (dynamic_array/mod.rs:5-10), and the record   *)
(* of the last call on it                                                  *)
(***************************************************************************)
VARIABLES
    da_array,          \* array: Box<[Option<T>]>, NoValue for None
    da_len,            \* len: usize
    da_capacity,       \* capacity: usize
    da_current,        \* current: usize
    da_panic,          \* "none", or the panic that aborted the program
    da_last,           \* the last call: operation, arguments, result
    da_prev            \* the array (all fields) before the last call

(***************************************************************************)
(* State of one SinglyLinkedList (singly_linked_list/mod.rs:10-13), and    *)
(* the record of the last call on it                                       *)
(***************************************************************************)
VARIABLES
    sl_head,           \* head: Option<Box<Node<T>>>, as the data of the chain's nodes
    sl_len,            \* len: usize
    sl_panic,          \* "none", or the panic that aborted the program
    sl_last,           \* the last call: operation, arguments, result
    sl_prev            \* the list (all fields) before the last call

(***************************************************************************)
(* State of one StaticArray (static_array/mod.rs:5-10), and the record of  *)
(* the last call on it                                                     *)
(***************************************************************************)
VARIABLES
    sa_array,          \* array: Box<[Option<T>]>, NoValue for None
    sa_len,            \* len: usize
    sa_capacity,       \* capacity: usize
    sa_current,        \* current: usize
    sa_panic,          \* "none", or the panic that aborted the program
    sa_last,           \* the last call: operation, arguments, result
    sa_prev            \* the array (all fields) before the last call

ht_vars == <<buckets, entries_len, panic, last, prev_buckets, prev_entries_len,
             iterator, yielded>>
da_vars == <<da_array, da_len, da_capacity, da_current, da_panic, da_last, da_prev>>
sl_vars == <<sl_head, sl_len, sl_panic, sl_last, sl_prev>>
sa_vars == <<sa_array, sa_len, sa_capacity, sa_current, sa_panic, sa_last, sa_prev>>
vars == <<ht_vars, da_vars, sl_vars, sa_vars>>

\* Outcome of a call on a table: the table after it, the Result and the panic.
Outcome(b, n, result, ret, p) ==
    [buckets |-> b, entries_len |-> n, result |-> result, ret |-> ret, panic |-> p]

Table(b, n) == [buckets |-> b, entries_len |-> n]

\* new (mod.rs:16-23)
new(capacity) == Table([i \in 1 .. capacity |-> <<>>], 0)

\* Iterator::position over a chain: index of the first entry with the key, or -1
position(chain, key) ==
    IF \E i \in 1 .. Len(chain) : compare_key(chain[i], key)
    THEN (CHOOSE i \in 1 .. Len(chain) :
              /\ compare_key(chain[i], key)
              /\ \A j \in 1 .. i - 1 : ~compare_key(chain[j], key)) - 1
    ELSE -1

\* Vec::remove(index) on a chain whose length exceeds index
vec_remove(chain, index) ==
    [i \in 1 .. Len(chain) - 1 |-> IF i <= index THEN chain[i] ELSE chain[i + 1]]

\* `Self::hash(&key) % self.buckets.len()`: the bucket index of a key in a
\* table of n >= 1 buckets (mod.rs:27, 38, 49, 61, 77)
bucket_index(key, n) == key_hash[key] % n

Panicked(t, p) == Outcome(t.buckets, t.entries_len, "panic", NoValue, p)

\* get (mod.rs:25-34)
get(t, key) ==
    IF Len(t.buckets) = 0 THEN Panicked(t, "rem_by_zero")
    ELSE LET index == bucket_index(key, Len(t.buckets))
             chain == At(t.buckets, index)
             p     == position(chain, key)
         IN  IF p >= 0
             THEN Outcome(t.buckets, t.entries_len, "Ok", At(chain, p).value, "none")
             ELSE Outcome(t.buckets, t.entries_len, "KeyNotInitialized", NoValue, "none")

\* get_mut (mod.rs:36-45): the same lookup, the reference is to the stored value
get_mut(t, key) ==
    IF Len(t.buckets) = 0 THEN Panicked(t, "rem_by_zero")
    ELSE LET index == bucket_index(key, Len(t.buckets))
             chain == At(t.buckets, index)
             p     == position(chain, key)
         IN  IF p >= 0
             THEN Outcome(t.buckets, t.entries_len, "Ok", At(chain, p).value, "none")
             ELSE Outcome(t.buckets, t.entries_len, "KeyNotInitialized", NoValue, "none")

\* A set that writes an entry when the key is absent.
set_creating(t, key, value) ==
    IF Len(t.buckets) = 0 THEN Panicked(t, "rem_by_zero")
    ELSE LET index == bucket_index(key, Len(t.buckets))
             chain == At(t.buckets, index)
             p     == position(chain, key)
         IN  IF p >= 0
             THEN Outcome([t.buckets EXCEPT ![index + 1][p + 1].value = value],
                          t.entries_len, "Ok", NoValue, "none")
             ELSE Outcome([t.buckets EXCEPT ![index + 1] = Append(@, Entry(key, value))],
                          t.entries_len, "Ok", NoValue, "none")

\* set (mod.rs:47-57)
set(t, key, value) ==
    IF Len(t.buckets) = 0 THEN Panicked(t, "rem_by_zero")
    ELSE LET index == bucket_index(key, Len(t.buckets))
             chain == At(t.buckets, index)
             p     == position(chain, key)
         IN  IF p >= 0
             THEN Outcome([t.buckets EXCEPT ![index + 1][p + 1].value = value],
                          t.entries_len, "Ok", NoValue, "none")
             ELSE Outcome(t.buckets, t.entries_len, "KeyNotInitialized", NoValue, "none")

\* An insert that skips the duplicate check.
insert_unchecked(t, key, value) ==
    IF Len(t.buckets) = 0 THEN Panicked(t, "rem_by_zero")
    ELSE LET index == bucket_index(key, Len(t.buckets))
         IN  Outcome([t.buckets EXCEPT ![index + 1] = Append(@, Entry(key, value))],
                     t.entries_len + 1, "Ok", NoValue, "none")

\* An insert that puts the new entry at the head of the chain.
insert_at_head(t, key, value) ==
    IF Len(t.buckets) = 0 THEN Panicked(t, "rem_by_zero")
    ELSE LET index     == bucket_index(key, Len(t.buckets))
             key_exist == \E i \in 1 .. Len(At(t.buckets, index)) :
                              compare_key(At(t.buckets, index)[i], key)
         IN  IF key_exist
             THEN Outcome(t.buckets, t.entries_len, "DuplicateKey", NoValue, "none")
             ELSE Outcome([t.buckets EXCEPT ![index + 1] = <<Entry(key, value)>> \o @],
                          t.entries_len + 1, "Ok", NoValue, "none")

\* insert (mod.rs:59-73)
insert(t, key, value) ==
    IF Len(t.buckets) = 0 THEN Panicked(t, "rem_by_zero")
    ELSE LET index     == bucket_index(key, Len(t.buckets))
             key_exist == \E i \in 1 .. Len(At(t.buckets, index)) :
                              compare_key(At(t.buckets, index)[i], key)
         IN  IF key_exist
             THEN Outcome(t.buckets, t.entries_len, "DuplicateKey", NoValue, "none")
             ELSE Outcome([t.buckets EXCEPT ![index + 1] = Append(@, Entry(key, value))],
                          t.entries_len + 1, "Ok", NoValue, "none")

\* remove (mod.rs:75-89).  The `index` bound by `Some(index)` at line 82 is the
\* position in the chain and shadows the bucket index of line 77, so line 83
\* reads `self.buckets[position].remove(position)`: slice indexing panics when
\* position >= buckets.len(), Vec::remove panics when position >= the length of
\* that chain, and both panic before anything is changed.
remove(t, key) ==
    IF Len(t.buckets) = 0 THEN Panicked(t, "rem_by_zero")
    ELSE LET bucket     == bucket_index(key, Len(t.buckets))
             find_entry == position(At(t.buckets, bucket), key)
             index      == find_entry
         IN  IF find_entry < 0
             THEN Outcome(t.buckets, t.entries_len, "KeyNotInitialized", NoValue, "none")
             ELSE IF index >= Len(t.buckets)
             THEN Panicked(t, "bucket_index_out_of_bounds")
             ELSE IF index >= Len(At(t.buckets, index))
             THEN Panicked(t, "vec_remove_index_out_of_bounds")
             ELSE IF t.entries_len = 0
             THEN Panicked([t EXCEPT !.buckets[index + 1] = vec_remove(@, index)],
                           "subtract_with_overflow")
             ELSE Outcome([t.buckets EXCEPT ![index + 1] = vec_remove(@, index)],
                          t.entries_len - 1, "Ok",
                          At(At(t.buckets, index), index).value, "none")

\* The inner loop of rehashing (mod.rs:163-165): insert the entries of one old
\* chain, from position i on, into the table t; the Result of insert is dropped.
RECURSIVE rehash_entries(_, _, _)
rehash_entries(t, entries, i) ==
    IF i >= Len(entries) THEN Outcome(t.buckets, t.entries_len, "Ok", NoValue, "none")
    ELSE LET o == insert(t, At(entries, i).key, At(entries, i).value)
         IN  IF o.panic # "none" THEN o
             ELSE rehash_entries(Table(o.buckets, o.entries_len), entries, i + 1)

\* The outer loop of rehashing (mod.rs:161-167) over the old buckets, from
\* bucket b on.
RECURSIVE rehash_buckets(_, _, _)
rehash_buckets(t, old, b) ==
    IF b >= Len(old) THEN Outcome(t.buckets, t.entries_len, "Ok", NoValue, "none")
    ELSE IF Len(At(old, b)) = 0 THEN rehash_buckets(t, old, b + 1)
    ELSE LET o == rehash_entries(t, At(old, b), 0)
         IN  IF o.panic # "none" THEN o
             ELSE rehash_buckets(Table(o.buckets, o.entries_len), old, b + 1)

\* A rehashing that keeps the old counter and lets insert count again.
rehashing_without_reset(t, capacity) ==
    rehash_buckets(Table(new(capacity).buckets, t.entries_len), t.buckets, 0)

\* A rehashing that re-inserts only the first entry of every old chain.
rehashing_chain_heads(t, capacity) ==
    rehash_buckets(new(capacity),
                   [b \in 1 .. Len(t.buckets) |->
                       IF t.buckets[b] = <<>> THEN <<>> ELSE <<Head(t.buckets[b])>>], 0)

\* A rehashing that walks the old buckets from the last to the first.
rehashing_from_last_bucket(t, capacity) ==
    rehash_buckets(new(capacity),
                   [b \in 1 .. Len(t.buckets) |-> t.buckets[Len(t.buckets) + 1 - b]], 0)

\* rehashing (mod.rs:156-168)
rehashing(t, capacity) == rehash_buckets(new(capacity), t.buckets, 0)

\* entries_len, buckets_len, is_empty (mod.rs:130-146)
entries_len_of(t) == t.entries_len
buckets_len(t) == Cardinality({b \in 1 .. Len(t.buckets) : Len(t.buckets[b]) # 0})
is_empty(t) == t.entries_len = 0

\* get_entries (mod.rs:118-128), from bucket b on: the (key, value) pairs of
\* the non-empty chains, chain after chain.
RECURSIVE get_entries_from(_, _)
get_entries_from(t, b) ==
    IF b >= Len(t.buckets) THEN <<>>
    ELSE [j \in 1 .. Len(At(t.buckets, b)) |->
             <<At(t.buckets, b)[j].key, At(t.buckets, b)[j].value>>]
         \o get_entries_from(t, b + 1)

get_entries(t) == get_entries_from(t, 0)

(***************************************************************************)
(* SeparateChainingHashTableIterator (iterator.rs)                         *)
(***************************************************************************)
\* No iterator borrows the table.
NoIterator == [active |-> FALSE, entries |-> <<>>, current |-> 0]

\* SeparateChainingHashTableIterator::new (iterator.rs:7-12)
iterator_new(entries) == [active |-> TRUE, entries |-> entries, current |-> 0]

\* iter (mod.rs:171-173) and into_iter (mod.rs:180-182)
iter(t) == iterator_new(get_entries(t))

\* A next that moves on before it reads.
iterator_next_skipping(it) ==
    IF it.current + 1 < Len(it.entries)
    THEN [iterator |-> [it EXCEPT !.current = @ + 1], result |-> "Some",
          item |-> At(it.entries, it.current + 1)]
    ELSE [iterator |-> it, result |-> "None", item |-> <<"", NoValue>>]

\* Iterator::next (iterator.rs:18-26)
iterator_next(it) ==
    IF it.current < Len(it.entries)
    THEN [iterator |-> [it EXCEPT !.current = @ + 1], result |-> "Some",
          item |-> At(it.entries, it.current)]
    ELSE [iterator |-> it, result |-> "None", item |-> <<"", NoValue>>]

(***************************************************************************)
(* The dynamic array at rest: what the table's state machine leaves alone. *)
(***************************************************************************)
SinglyLinkedListIdle ==
    /\ sl_head = <<>>
    /\ sl_len = 0
    /\ sl_panic = "none"
    /\ sl_last = [op |-> "none", index |-> 0, value |-> NoValue, pred_value |-> NoValue,
                  result |-> "Ok", ret |-> NoValue]
    /\ sl_prev = [head |-> <<>>, len |-> 0]

StaticArrayIdle ==
    /\ sa_array = <<>>
    /\ sa_len = 0
    /\ sa_capacity = 0
    /\ sa_current = 0
    /\ sa_panic = "none"
    /\ sa_last = [op |-> "none", index |-> 0, value |-> NoValue, capacity |-> 0,
                  values |-> <<>>, result |-> "Ok", ret |-> NoValue]
    /\ sa_prev = [array |-> <<>>, len |-> 0, capacity |-> 0, current |-> 0]

DynamicArrayIdle ==
    /\ da_array = <<>>
    /\ da_len = 0
    /\ da_capacity = 0
    /\ da_current = 0
    /\ da_panic = "none"
    /\ da_last = [op |-> "none", index |-> 0, value |-> NoValue, capacity |-> 0,
                  values |-> <<>>, result |-> "Ok", ret |-> NoValue]
    /\ da_prev = [array |-> <<>>, len |-> 0, capacity |-> 0, current |-> 0]

(***************************************************************************)
(* The state machine: one table, driven by any sequence of calls.  A panic *)
(* aborts the program: no call follows it.  An iterator borrows the table: *)
(* its borrow has ended when a method of the table is called.              *)
(***************************************************************************)
self_table == Table(buckets, entries_len)

Call(op, key, value, capacity, o) ==
    /\ panic = "none"
    /\ iterator' = NoIterator
    /\ yielded' = <<>>
    /\ UNCHANGED <<da_vars, sl_vars, sa_vars>>
    /\ prev_buckets' = buckets
    /\ prev_entries_len' = entries_len
    /\ buckets' = o.buckets
    /\ entries_len' = o.entries_len
    /\ panic' = o.panic
    /\ last' = [op |-> op, key |-> key, value |-> value, capacity |-> capacity,
                result |-> o.result, ret |-> o.ret]

InitWith(capacities) ==
    \E capacity \in capacities :
        /\ buckets = new(capacity).buckets
        /\ entries_len = new(capacity).entries_len
        /\ panic = "none"
        /\ last = [op |-> "new", key |-> "", value |-> NoValue, capacity |-> capacity,
                   result |-> "Ok", ret |-> NoValue]
        /\ prev_buckets = <<>>
        /\ prev_entries_len = 0
        /\ iterator = NoIterator
        /\ yielded = <<>>
        /\ DynamicArrayIdle
        /\ SinglyLinkedListIdle
        /\ StaticArrayIdle

Get(key) == Call("get", key, NoValue, 0, get(self_table, key))
GetMut(key) == Call("get_mut", key, NoValue, 0, get_mut(self_table, key))
Set(key, value) == Call("set", key, value, 0, set(self_table, key, value))
Insert(key, value) == Call("insert", key, value, 0, insert(self_table, key, value))
Remove(key) == Call("remove", key, NoValue, 0, remove(self_table, key))
Rehashing(capacity) ==
    Call("rehashing", "", NoValue, capacity, rehashing(self_table, capacity))

\* table.iter(), or `for .. in &table`: a new iterator over the table
Iter ==
    /\ panic = "none"
    /\ iterator' = iter(self_table)
    /\ yielded' = <<>>
    /\ last' = [op |-> "iter", key |-> "", value |-> NoValue, capacity |-> 0,
                result |-> "Ok", ret |-> NoValue]
    /\ prev_buckets' = buckets
    /\ prev_entries_len' = entries_len
    /\ UNCHANGED <<buckets, entries_len, panic, da_vars, sl_vars, sa_vars>>

\* next() on the iterator
IterNext ==
    /\ panic = "none"
    /\ iterator.active
    /\ LET o == iterator_next(iterator)
       IN  /\ iterator' = o.iterator
           /\ yielded' = IF o.result = "Some" THEN Append(yielded, o.item) ELSE yielded
           /\ last' = [op |-> "next", key |-> o.item[1], value |-> o.item[2],
                       capacity |-> 0, result |-> o.result, ret |-> o.item[2]]
    /\ prev_buckets' = buckets
    /\ prev_entries_len' = entries_len
    /\ UNCHANGED <<buckets, entries_len, panic, da_vars, sl_vars, sa_vars>>

NextWith(capacities) ==
    \/ \E key \in Keys : Get(key)
    \/ \E key \in Keys : GetMut(key)
    \/ \E key \in Keys, value \in Values : Set(key, value)
    \/ \E key \in Keys, value \in Values : Insert(key, value)
    \/ \E key \in Keys : Remove(key)
    \/ \E capacity \in capacities : Rehashing(capacity)
    \/ Iter
    \/ IterNext

\* Tables within the contract: at least one bucket (spec.md 4.2, new).
Init == InitWith(1 .. MaxBuckets)
Next == NextWith(1 .. MaxBuckets)
Spec == Init /\ [][Next]_vars

\* Tables of any bucket count, zero included.
InitZero == InitWith(0 .. MaxBuckets)
NextZero == NextWith(0 .. MaxBuckets)
SpecZero == InitZero /\ [][NextZero]_vars

(***************************************************************************)
(* Vocabulary of the properties: what a table holds, read off the buckets  *)
(* themselves and not through the table's own lookups.                     *)
(***************************************************************************)
\* Every stored entry with its place: bucket index, position in the chain.
Stored(b) ==
    UNION {{[bucket |-> i - 1, pos |-> j - 1, key |-> b[i][j].key, value |-> b[i][j].value] :
               j \in 1 .. Len(b[i])} : i \in 1 .. Len(b)}

Present(b, key) == \E e \in Stored(b) : e.key = key
Pairs(b) == {<<e.key, e.value>> : e \in Stored(b)}
PlacesOf(b, key) == {e \in Stored(b) : e.key = key}
PlaceOf(b, key) == CHOOSE e \in Stored(b) : e.key = key
\* Number of stored entries, summed over the chains.
RECURSIVE CountFrom(_, _)
CountFrom(b, i) == IF i > Len(b) THEN 0 ELSE Len(b[i]) + CountFrom(b, i + 1)
Count(b) == CountFrom(b, 1)
\* The chain a key belongs to, by the specification: hash(key) mod bucket count.
HomeBucket(b, key) == key_hash[key] % Len(b)
\* The chains of b with the entry of `key` taken out of its home chain.
Without(b, key) ==
    [i \in 1 .. Len(b) |-> SelectSeq(b[i], LAMBDA e : e.key # key)]

LastOk == panic = "none" /\ last.result = "Ok"
Unchanged == buckets = prev_buckets /\ entries_len = prev_entries_len

(***************************************************************************)
(* C1 .. C10: SeparateChainingHashTable                                    *)
(***************************************************************************)

\* C1: after remove(k) has returned on a table of at least one bucket that
\* held k, get(k) fails with KeyNotInitialized.
C1_RemoveThenGetFails ==
    (/\ last.op = "remove"
     /\ panic = "none"
     /\ Len(prev_buckets) >= 1
     /\ Present(prev_buckets, last.key))
    => get(self_table, last.key).result = "KeyNotInitialized"

\* C2: a remove(key) that returns, on a present key, has removed exactly the entry of that key from
\* its home bucket, returns its value and decrements entries_len by 1, all
\* other entries staying in place and order; on an absent key it returns
\* KeyNotInitialized and changes nothing.
C2_RemoveExactlyTheEntry ==
    (last.op = "remove" /\ panic = "none" /\ Len(prev_buckets) >= 1)
    => IF Present(prev_buckets, last.key)
       THEN /\ LastOk
            /\ last.ret = PlaceOf(prev_buckets, last.key).value
            /\ buckets = Without(prev_buckets, last.key)
            /\ entries_len = prev_entries_len - 1
       ELSE /\ panic = "none"
            /\ last.result = "KeyNotInitialized"
            /\ Unchanged

\* C3: on a table of at least one bucket no call panics: every call returns
\* Ok, KeyNotInitialized or DuplicateKey.
C3_NoPanic ==
    /\ panic = "none"
    /\ last.result \in {"Ok", "KeyNotInitialized", "DuplicateKey"}

\* C4: every stored entry sits in bucket hash(key) mod (bucket count), and no
\* key is stored in more than one entry.
C4_HomeBucketAndNoDuplicates ==
    /\ \A e \in Stored(buckets) : e.bucket = HomeBucket(buckets, e.key)
    /\ \A key \in Keys : Cardinality(PlacesOf(buckets, key)) <= 1
    /\ Cardinality(Stored(buckets)) = Cardinality({e.key : e \in Stored(buckets)})

C4_Witness ==
    /\ last.op = "rehashing"
    /\ Len(buckets) = 3
    /\ Len(prev_buckets) = 1
    /\ Cardinality(Stored(buckets)) = 4
    /\ \E e \in Stored(buckets) : e.bucket = 1 /\ e.pos = 1

\* C5: entries_len() is the number of stored entries, is_empty() is true
\* exactly when there is none, and buckets_len() is the number of non-empty
\* chains, after every call, succeeding or failing.
C5_CountersMatchContents ==
    /\ entries_len_of(self_table) = Count(buckets)
    /\ is_empty(self_table) <=> Stored(buckets) = {}
    /\ buckets_len(self_table) = Len(SelectSeq(buckets, LAMBDA chain : chain # <<>>))

C5_Witness ==
    /\ last.op = "remove"
    /\ last.result = "Ok"
    /\ prev_entries_len = 4
    /\ entries_len = 3
    /\ buckets_len(self_table) = 2

\* C6: insert(k, v) of an absent key appends the entry at the end of chain
\* hash(k) mod (bucket count), adds 1 to entries_len, and get(k) then returns
\* v; insert(k, w) of a present key fails with DuplicateKey and changes
\* neither the chains (so neither the stored value) nor entries_len.
C6_InsertAppendsOrRefuses ==
    (last.op = "insert" /\ Len(prev_buckets) >= 1)
    => IF ~Present(prev_buckets, last.key)
       THEN /\ LastOk
            /\ buckets = [prev_buckets EXCEPT
                             ![HomeBucket(prev_buckets, last.key) + 1] =
                                 Append(@, Entry(last.key, last.value))]
            /\ entries_len = prev_entries_len + 1
            /\ get(self_table, last.key).result = "Ok"
            /\ get(self_table, last.key).ret = last.value
       ELSE /\ panic = "none"
            /\ last.result = "DuplicateKey"
            /\ Unchanged
            /\ get(self_table, last.key).ret = PlaceOf(prev_buckets, last.key).value

C6_Witness ==
    /\ last.op = "insert"
    /\ last.result = "Ok"
    /\ \E e \in Stored(buckets) :
           e.key = last.key /\ e.value = last.value /\ e.pos = 1 /\ e.bucket = 1

\* C7: set(k, v) of an absent key returns KeyNotInitialized and changes
\* nothing; of a present key it replaces the value of that entry alone, in
\* place, and get(k) then returns v.
C7_SetNeverCreates ==
    (last.op = "set" /\ Len(prev_buckets) >= 1)
    => IF ~Present(prev_buckets, last.key)
       THEN /\ panic = "none"
            /\ last.result = "KeyNotInitialized"
            /\ Unchanged
       ELSE /\ LastOk
            /\ entries_len = prev_entries_len
            /\ Len(buckets) = Len(prev_buckets)
            /\ \A i \in 1 .. Len(buckets) :
                   /\ Len(buckets[i]) = Len(prev_buckets[i])
                   /\ \A j \in 1 .. Len(buckets[i]) :
                          /\ buckets[i][j].key = prev_buckets[i][j].key
                          /\ buckets[i][j].value =
                                 IF buckets[i][j].key = last.key THEN last.value
                                 ELSE prev_buckets[i][j].value
            /\ get(self_table, last.key).result = "Ok"
            /\ get(self_table, last.key).ret = last.value

C7_Witness ==
    /\ last.op = "set"
    /\ last.result = "KeyNotInitialized"
    /\ entries_len = 3
    /\ Stored(buckets) # {}

\* C8: rehashing(m), m >= 1, does not fail; afterwards the table has m
\* buckets, the same set of (key, value) pairs, the same number of entries and
\* the same entries_len, and get returns the same value for every key that
\* was present.
C8_RehashingPreservesPairs ==
    (last.op = "rehashing" /\ last.capacity >= 1)
    => /\ LastOk
       /\ Len(buckets) = last.capacity
       /\ Pairs(buckets) = Pairs(prev_buckets)
       /\ Count(buckets) = Count(prev_buckets)
       /\ entries_len = prev_entries_len
       /\ \A e \in Stored(prev_buckets) :
              /\ get(self_table, e.key).result = "Ok"
              /\ get(self_table, e.key).ret = e.value

C8_Witness ==
    /\ last.op = "rehashing"
    /\ last.result = "Ok"
    /\ Len(prev_buckets) = 3
    /\ Len(buckets) = 2
    /\ entries_len = 4

\* C9: no zero-bucket table comes into use: no call aborts with the division
\* by zero of `hash % buckets.len()`.
C9_ZeroBucketsRejected == panic # "rem_by_zero"

\* The sum of the bytes, as a number, computed from how often each byte value
\* occurs; and whether two byte strings hold the same bytes in any order.
Occurrences(bytes, v) == Cardinality({i \in 1 .. Len(bytes) : bytes[i] = v})
RECURSIVE WeightedSum(_, _)
WeightedSum(bytes, vs) ==
    IF vs = {} THEN 0
    ELSE LET v == CHOOSE x \in vs : TRUE
         IN  v * Occurrences(bytes, v) + WeightedSum(bytes, vs \ {v})
ByteSum(bytes) == WeightedSum(bytes, {bytes[i] : i \in 1 .. Len(bytes)})
SameBytes(k1, k2) ==
    /\ k1 # k2
    /\ Len(as_bytes[k1]) = Len(as_bytes[k2])
    /\ \A v \in 0 .. 255 : Occurrences(as_bytes[k1], v) = Occurrences(as_bytes[k2], v)
\* Both, for the keys of the model, computed once.
KeyByteSum == [k \in Keys |-> ByteSum(as_bytes[k])]
KeySameBytes == [k1 \in Keys, k2 \in Keys |-> SameBytes(k1, k2)]

\* C10: the bucket of a key is (the sum of its bytes modulo 2^UsizeBits) mod
\* the bucket count; two distinct keys of the same bytes in another order
\* share their bucket for every bucket count, are stored in one chain, make
\* one chain of length 2 and one bucket in use when they are the only
\* entries, and get returns to each its own value.
C10_SameBytesSameBucket ==
    /\ \A e \in Stored(buckets) :
           e.bucket = (KeyByteSum[e.key] % UsizeModulus) % Len(buckets)
    /\ \A k1 \in Keys, k2 \in Keys :
           KeySameBytes[k1, k2] =>
               /\ \A n \in 1 .. MaxBuckets : bucket_index(k1, n) = bucket_index(k2, n)
               /\ (Present(buckets, k1) /\ Present(buckets, k2)) =>
                      /\ PlaceOf(buckets, k1).bucket = PlaceOf(buckets, k2).bucket
                      /\ get(self_table, k1).ret = PlaceOf(buckets, k1).value
                      /\ get(self_table, k2).ret = PlaceOf(buckets, k2).value
                      /\ {e.key : e \in Stored(buckets)} = {k1, k2} =>
                             /\ buckets_len(self_table) = 1
                             /\ Len(At(buckets, PlaceOf(buckets, k1).bucket)) = 2

C10_Witness ==
    /\ Len(buckets) = 3
    /\ {e.key : e \in Stored(buckets)} = {"LongA", "LongB"}
    /\ PlaceOf(buckets, "LongB").pos = 0
    /\ PlaceOf(buckets, "LongA").value # PlaceOf(buckets, "LongB").value
    /\ KeySameBytes["LongA", "LongB"]
    /\ KeyByteSum["LongA"] > UsizeModulus
    /\ last.op = "get"
    /\ last.key = "LongA"
    /\ last.ret = PlaceOf(buckets, "LongA").value

\* The (key, value) pairs of a table in bucket-then-chain order: the pair of
\* the entry at (bucket, pos) stands at the rank that counts the entries of
\* the buckets before it and the entries before it in its chain.
Rank(b, e) == Count(SubSeq(b, 1, e.bucket)) + e.pos + 1
InOrder(b) ==
    [r \in 1 .. Count(b) |->
        LET e == CHOOSE x \in Stored(b) : Rank(b, x) = r IN <<e.key, e.value>>]

\* C11: an iterator yields the stored (key, value) pairs in bucket-then-chain
\* order, each once, entries_len() of them, and then None; every iter() starts
\* again at the first pair.
C11_IterationInOrder ==
    iterator.active =>
        /\ Len(yielded) <= Count(buckets)
        /\ yielded = SubSeq(InOrder(buckets), 1, Len(yielded))
        /\ last.op = "iter" => yielded = <<>>
        /\ (last.op = "next" /\ last.result = "Some") =>
               /\ yielded # <<>>
               /\ <<last.key, last.value>> = yielded[Len(yielded)]
        /\ (last.op = "next" /\ last.result = "None") =>
               /\ yielded = InOrder(buckets)
               /\ Len(yielded) = entries_len_of(self_table)

C11_Witness ==
    /\ iterator.active
    /\ last.op = "next"
    /\ last.result = "None"
    /\ Len(buckets) = 3
    /\ Len(yielded) = 4
    /\ buckets_len(self_table) = 2

\* ===========================================================================
\* Part 2.  DynamicArray (src/array/src/dynamic_array/mod.rs)
\* ===========================================================================
\*
\* The array is the record [array, len, capacity, current, panic]: `array` is
\* the boxed slice of Option<T> (Absent is None, a value v is Some(v)), `len`,
\* `capacity` and `current` are the struct's counters, and `panic` is "none"
\* until an indexing expression of the code (self.array[i]) goes out of the
\* slice.  The methods' names carry the prefix da_ because new, get, set,
\* insert and remove already name the hash table's methods.
\* capacity * 2 and len + 1 cannot overflow usize for a slice that fits in
\* memory, so they are plain integer arithmetic.

MaxCapacity == 3
MaxLen == 5
MaxPushes == 9

Absent == NoValue

DynamicArray(array, len, capacity, current) ==
    [array |-> array, len |-> len, capacity |-> capacity, current |-> current,
     panic |-> "none"]

Result(a, result, ret) == [self |-> a, result |-> result, ret |-> ret]

\* self.array.get(index): None outside the slice, Some(slot) inside.
slice_get(array, index) ==
    IF index < Len(array) THEN <<At(array, index)>> ELSE <<>>

\* self.array[index] = slot: panics outside the slice.
index_mut(a, index, slot) ==
    IF a.panic # "none" THEN a
    ELSE IF index < Len(a.array) THEN [a EXCEPT !.array[index + 1] = slot]
    ELSE [a EXCEPT !.panic = "index_out_of_bounds"]

da_new(capacity) ==
    DynamicArray([i \in 1 .. capacity |-> Absent], 0, capacity, 0)

\* A with_values whose len counts every supplied value (not the code's).
da_with_values_counting_all(capacity, values) ==
    DynamicArray([i \in 1 .. capacity |->
                     IF i <= Len(values) THEN values[i] ELSE Absent],
                 Len(values), capacity, 0)

da_with_values(capacity, values) ==
    DynamicArray([i \in 1 .. capacity |->
                     IF i <= Len(values) THEN values[i] ELSE Absent],
                 IF Len(values) < capacity THEN Len(values) ELSE capacity,
                 capacity, 0)

da_get(a, index) ==
    IF index >= a.len THEN Result(a, "IndexOutOfBounds", NoValue)
    ELSE IF slice_get(a.array, index) = <<>> THEN Result(a, "IndexOutOfBounds", NoValue)
    ELSE IF slice_get(a.array, index)[1] = Absent THEN Result(a, "IndexOutOfBounds", NoValue)
    ELSE Result(a, "Ok", slice_get(a.array, index)[1])

da_get_mut(a, index) ==
    IF index >= a.len THEN Result(a, "IndexOutOfBounds", NoValue)
    ELSE IF slice_get(a.array, index) = <<>> THEN Result(a, "IndexOutOfBounds", NoValue)
    ELSE IF slice_get(a.array, index)[1] = Absent THEN Result(a, "IndexOutOfBounds", NoValue)
    ELSE Result(a, "Ok", slice_get(a.array, index)[1])

\* A set that accepts every index inside the slice (not the code's).
da_set_within_capacity(a, index, value) ==
    IF index >= a.capacity THEN Result(a, "IndexOutOfBounds", NoValue)
    ELSE Result(index_mut(a, index, value), "Ok", NoValue)

da_set(a, index, value) ==
    IF index >= a.len THEN Result(a, "IndexOutOfBounds", NoValue)
    ELSE Result(index_mut(a, index, value), "Ok", NoValue)

\* A call that reached its end: its result, unless an indexing panicked.
Returned(a, result, ret) ==
    IF a.panic = "none" THEN Result(a, result, ret)
    ELSE Result(a, "panic", NoValue)

\* A resize that leaves len alone (not the code's).
da_resize_keeping_len(a, new_capacity) ==
    [a EXCEPT !.array = [i \in 1 .. new_capacity |->
                            IF i <= Len(a.array) THEN a.array[i] ELSE Absent],
              !.capacity = new_capacity]

\* A resize that starts from an empty array (not the code's).
da_resize_clearing(a, new_capacity) ==
    [a EXCEPT !.array = [i \in 1 .. new_capacity |-> Absent],
              !.capacity = new_capacity,
              !.len = 0]

da_resize(a, new_capacity) ==
    [a EXCEPT !.array = [i \in 1 .. new_capacity |->
                            IF i <= Len(a.array) THEN a.array[i] ELSE Absent],
              !.capacity = new_capacity,
              !.len = IF a.len > new_capacity THEN new_capacity ELSE a.len]

\* The growth step that opens push and unshift.
grow(a) ==
    IF a.capacity = 0 THEN da_resize(a, 4)
    ELSE IF a.len = a.capacity THEN da_resize(a, a.capacity * 2)
    ELSE a

\* A push that grows a full array by one slot (not the code's).
da_push_growing_by_one(a, value) ==
    LET grown == IF a.capacity = 0 THEN da_resize(a, 4)
                 ELSE IF a.len = a.capacity THEN da_resize(a, a.capacity + 1)
                 ELSE a
        stored == index_mut(grown, grown.len, value)
    IN  Returned(IF stored.panic = "none" THEN [stored EXCEPT !.len = @ + 1] ELSE stored,
                 "Ok", NoValue)

\* A push whose first allocation is one slot (not the code's).
da_push_from_one(a, value) ==
    LET grown == IF a.capacity = 0 THEN da_resize(a, 1)
                 ELSE IF a.len = a.capacity THEN da_resize(a, a.capacity * 2)
                 ELSE a
        stored == index_mut(grown, grown.len, value)
    IN  Returned(IF stored.panic = "none" THEN [stored EXCEPT !.len = @ + 1] ELSE stored,
                 "Ok", NoValue)

da_push(a, value) ==
    LET grown == grow(a)
        stored == index_mut(grown, grown.len, value)
    IN  Returned(IF stored.panic = "none" THEN [stored EXCEPT !.len = @ + 1] ELSE stored,
                 "Ok", NoValue)

\* for i in (first..=last).rev() { self.array[i] = arr[i - 1] }
RECURSIVE shift_right(_, _, _, _)
shift_right(a, arr, first, i) ==
    IF i < first \/ a.panic # "none" THEN a
    ELSE shift_right(index_mut(a, i, IF i - 1 < Len(arr) THEN At(arr, i - 1) ELSE Absent),
                     arr, first, i - 1)

\* An unshift that stores at the end (not the code's).
da_unshift_appending(a, value) == da_push(a, value)

da_unshift(a, value) ==
    LET grown == grow(a)
        shifted == shift_right(grown, grown.array, 1, grown.len)
        stored == index_mut(shifted, 0, value)
    IN  Returned(IF stored.panic = "none" THEN [stored EXCEPT !.len = @ + 1] ELSE stored,
                 "Ok", NoValue)

\* An insert that doubles a full array before it looks at the index (not the
\* code's).
da_insert_growing_first(a, index, value) ==
    LET grown == IF a.len = a.capacity THEN da_resize(a, a.capacity * 2) ELSE a
    IN  IF index >= a.len THEN Result(grown, "IndexOutOfBounds", NoValue)
        ELSE LET shifted == shift_right(grown, grown.array, index + 1, grown.len)
                 stored == index_mut(shifted, index, value)
             IN  Returned(IF stored.panic = "none" THEN [stored EXCEPT !.len = @ + 1]
                          ELSE stored, "Ok", NoValue)

\* An insert that writes over the element at index and duplicates the last
\* one (not the code's).
da_insert_overwriting(a, index, value) ==
    IF index >= a.len THEN Result(a, "IndexOutOfBounds", NoValue)
    ELSE LET grown == IF a.len = a.capacity THEN da_resize(a, a.capacity * 2) ELSE a
             shifted == shift_right(grown, grown.array, grown.len, grown.len)
             stored == index_mut(shifted, index, value)
         IN  Returned(IF stored.panic = "none" THEN [stored EXCEPT !.len = @ + 1]
                      ELSE stored, "Ok", NoValue)

da_insert(a, index, value) ==
    IF index >= a.len THEN Result(a, "IndexOutOfBounds", NoValue)
    ELSE LET grown == IF a.len = a.capacity THEN da_resize(a, a.capacity * 2) ELSE a
             shifted == shift_right(grown, grown.array, index + 1, grown.len)
             stored == index_mut(shifted, index, value)
         IN  Returned(IF stored.panic = "none" THEN [stored EXCEPT !.len = @ + 1]
                      ELSE stored, "Ok", NoValue)

\* for (i, v) in slice.iter().enumerate() { self.array[index + i] = v }
RECURSIVE shift_left(_, _, _, _)
shift_left(a, slice, index, i) ==
    IF i >= Len(slice) \/ a.panic # "none" THEN a
    ELSE shift_left(index_mut(a, index + i, At(slice, i)), slice, index, i + 1)

\* A remove that clears the last slot without moving the later elements (not
\* the code's).
da_remove_without_shift(a, index) ==
    IF index >= a.len THEN Result(a, "IndexOutOfBounds", NoValue)
    ELSE IF slice_get(a.array, index) = <<>> THEN Result(a, "IndexOutOfBounds", NoValue)
    ELSE IF slice_get(a.array, index)[1] = Absent
    THEN Result(a, "IndexOutOfBounds", NoValue)
    ELSE IF a.len > Len(a.array)
    THEN Result([a EXCEPT !.panic = "slice_index_out_of_bounds"], "panic", NoValue)
    ELSE LET value == slice_get(a.array, index)[1]
             slice == SubSeq(a.array, index + 2, a.len)
             shifted == a
             cleared == index_mut(shifted, a.len - 1, Absent)
             shorter == IF cleared.panic = "none" THEN [cleared EXCEPT !.len = @ - 1]
                        ELSE cleared
             halved == IF cleared.panic = "none" /\ shorter.len < shorter.capacity \div 2
                          /\ shorter.capacity > 1
                       THEN da_resize(shorter, shorter.capacity \div 2)
                       ELSE shorter
         IN  Returned(halved, "Ok", value)

\* A remove that keeps the capacity (not the code's).
da_remove_never_halving(a, index) ==
    IF index >= a.len THEN Result(a, "IndexOutOfBounds", NoValue)
    ELSE IF slice_get(a.array, index) = <<>> THEN Result(a, "IndexOutOfBounds", NoValue)
    ELSE IF slice_get(a.array, index)[1] = Absent
    THEN Result(a, "IndexOutOfBounds", NoValue)
    ELSE IF a.len > Len(a.array)
    THEN Result([a EXCEPT !.panic = "slice_index_out_of_bounds"], "panic", NoValue)
    ELSE LET value == slice_get(a.array, index)[1]
             slice == SubSeq(a.array, index + 2, a.len)
             shifted == shift_left(a, slice, index, 0)
             cleared == index_mut(shifted, a.len - 1, Absent)
             shorter == IF cleared.panic = "none" THEN [cleared EXCEPT !.len = @ - 1]
                        ELSE cleared
             halved == IF cleared.panic = "none" /\ FALSE
                       THEN da_resize(shorter, shorter.capacity \div 2)
                       ELSE shorter
         IN  Returned(halved, "Ok", value)

\* A remove that halves as soon as the elements fit in half the slots (not the
\* code's).
da_remove_halving_early(a, index) ==
    IF index >= a.len THEN Result(a, "IndexOutOfBounds", NoValue)
    ELSE IF slice_get(a.array, index) = <<>> THEN Result(a, "IndexOutOfBounds", NoValue)
    ELSE IF slice_get(a.array, index)[1] = Absent
    THEN Result(a, "IndexOutOfBounds", NoValue)
    ELSE IF a.len > Len(a.array)
    THEN Result([a EXCEPT !.panic = "slice_index_out_of_bounds"], "panic", NoValue)
    ELSE LET value == slice_get(a.array, index)[1]
             slice == SubSeq(a.array, index + 2, a.len)
             shifted == shift_left(a, slice, index, 0)
             cleared == index_mut(shifted, a.len - 1, Absent)
             shorter == IF cleared.panic = "none" THEN [cleared EXCEPT !.len = @ - 1]
                        ELSE cleared
             halved == IF cleared.panic = "none" /\ shorter.len <= shorter.capacity \div 2
                       THEN da_resize(shorter, shorter.capacity \div 2)
                       ELSE shorter
         IN  Returned(halved, "Ok", value)

da_remove(a, index) ==
    IF index >= a.len THEN Result(a, "IndexOutOfBounds", NoValue)
    ELSE IF slice_get(a.array, index) = <<>> THEN Result(a, "IndexOutOfBounds", NoValue)
    ELSE IF slice_get(a.array, index)[1] = Absent
    THEN Result(a, "IndexOutOfBounds", NoValue)
    ELSE IF a.len > Len(a.array)
    THEN Result([a EXCEPT !.panic = "slice_index_out_of_bounds"], "panic", NoValue)
    ELSE LET value == slice_get(a.array, index)[1]
             slice == SubSeq(a.array, index + 2, a.len)
             shifted == shift_left(a, slice, index, 0)
             cleared == index_mut(shifted, a.len - 1, Absent)
             shorter == IF cleared.panic = "none" THEN [cleared EXCEPT !.len = @ - 1]
                        ELSE cleared
             halved == IF cleared.panic = "none" /\ shorter.len < shorter.capacity \div 2
                          /\ shorter.capacity > 1
                       THEN da_resize(shorter, shorter.capacity \div 2)
                       ELSE shorter
         IN  Returned(halved, "Ok", value)

da_len_of(a) == a.len

da_capacity_of(a) == a.capacity

da_is_empty(a) == a.len = 0

\* ---------------------------------------------------------------------------
\* The DynamicArray state machine
\* ---------------------------------------------------------------------------
\*
\* One action per public method.  da_last records the call just made and
\* da_prev the array it was made on.  A panic ends the run.  The hash table
\* is not touched.

da_self ==
    [array |-> da_array, len |-> da_len, capacity |-> da_capacity,
     current |-> da_current, panic |-> da_panic]

HashTableIdle ==
    /\ buckets = <<>>
    /\ entries_len = 0
    /\ panic = "none"
    /\ last = [op |-> "none", key |-> "", value |-> NoValue, capacity |-> 0,
               result |-> "Ok", ret |-> NoValue]
    /\ prev_buckets = <<>>
    /\ prev_entries_len = 0
    /\ iterator = NoIterator
    /\ yielded = <<>>

\* The slices with_values is called with.
ValueLists == UNION {[1 .. n -> Values] : n \in 0 .. MaxCapacity + 1}

DynamicArrayCreated(op, capacity, values, a) ==
    /\ HashTableIdle
    /\ SinglyLinkedListIdle
    /\ StaticArrayIdle
    /\ da_array = a.array
    /\ da_len = a.len
    /\ da_capacity = a.capacity
    /\ da_current = a.current
    /\ da_panic = a.panic
    /\ da_last = [op |-> op, index |-> 0, value |-> NoValue, capacity |-> capacity,
                  values |-> values, result |-> "Ok", ret |-> NoValue]
    /\ da_prev = [array |-> <<>>, len |-> 0, capacity |-> 0, current |-> 0]

DynamicArrayCall(op, index, value, capacity, o) ==
    /\ da_panic = "none"
    /\ UNCHANGED <<ht_vars, sl_vars, sa_vars>>
    /\ da_prev' = [array |-> da_array, len |-> da_len, capacity |-> da_capacity,
                   current |-> da_current]
    /\ da_array' = o.self.array
    /\ da_len' = o.self.len
    /\ da_capacity' = o.self.capacity
    /\ da_current' = o.self.current
    /\ da_panic' = o.self.panic
    /\ da_last' = [op |-> op, index |-> index, value |-> value, capacity |-> capacity,
                   values |-> <<>>, result |-> o.result, ret |-> o.ret]

DynamicArrayGet(index) ==
    DynamicArrayCall("get", index, NoValue, 0, da_get(da_self, index))
DynamicArrayGetMut(index) ==
    DynamicArrayCall("get_mut", index, NoValue, 0, da_get_mut(da_self, index))
DynamicArraySet(index, value) ==
    DynamicArrayCall("set", index, value, 0, da_set(da_self, index, value))
DynamicArrayUnshift(value) ==
    DynamicArrayCall("unshift", 0, value, 0, da_unshift(da_self, value))
DynamicArrayPush(value) ==
    DynamicArrayCall("push", 0, value, 0, da_push(da_self, value))
DynamicArrayInsert(index, value) ==
    DynamicArrayCall("insert", index, value, 0, da_insert(da_self, index, value))
DynamicArrayRemove(index) ==
    DynamicArrayCall("remove", index, NoValue, 0, da_remove(da_self, index))
DynamicArrayResize(new_capacity) ==
    DynamicArrayCall("resize", 0, NoValue, new_capacity,
                     Result(da_resize(da_self, new_capacity), "Ok", NoValue))

\* Arrays made by new and with_values, then any calls; the array grows while
\* it holds fewer than MaxLen elements.
InitDynamicArray ==
    \E capacity \in 0 .. MaxCapacity :
        \/ DynamicArrayCreated("new", capacity, <<>>, da_new(capacity))
        \/ \E values \in ValueLists :
               DynamicArrayCreated("with_values", capacity, values,
                                   da_with_values(capacity, values))

NextDynamicArray ==
    \/ \E index \in 0 .. MaxLen : DynamicArrayGet(index)
    \/ \E index \in 0 .. MaxLen : DynamicArrayGetMut(index)
    \/ \E index \in 0 .. MaxLen, value \in Values : DynamicArraySet(index, value)
    \/ da_len < MaxLen /\ \E value \in Values : DynamicArrayUnshift(value)
    \/ da_len < MaxLen /\ \E value \in Values : DynamicArrayPush(value)
    \/ da_len < MaxLen /\ \E index \in 0 .. MaxLen, value \in Values :
                              DynamicArrayInsert(index, value)
    \/ \E index \in 0 .. MaxLen : DynamicArrayRemove(index)
    \/ \E new_capacity \in 0 .. MaxCapacity : DynamicArrayResize(new_capacity)

SpecDynamicArray == InitDynamicArray /\ [][NextDynamicArray]_vars

\* DynamicArray::new(0) followed by pushes only, up to MaxPushes of them.
InitPushes == DynamicArrayCreated("new", 0, <<>>, da_new(0))

NextPushes == da_len < MaxPushes /\ \E value \in Values : DynamicArrayPush(value)

SpecPushes == InitPushes /\ [][NextPushes]_vars

\* ---------------------------------------------------------------------------
\* Vocabulary of the DynamicArray claims
\* ---------------------------------------------------------------------------

\* The element sequence of an array: its first len slots.
Elements(array, len) == [i \in 1 .. len |-> array[i]]

da_elements == Elements(da_array, da_len)

da_prev_elements == Elements(da_prev.array, da_prev.len)

da_prev_self ==
    [array |-> da_prev.array, len |-> da_prev.len, capacity |-> da_prev.capacity,
     current |-> da_prev.current, panic |-> "none"]

\* The last call was op and it returned Ok.
DaLastOk(op) == da_last.op = op /\ da_last.result = "Ok"

\* The last call was op and it returned IndexOutOfBounds.
DaLastErr(op) == da_last.op = op /\ da_last.result = "IndexOutOfBounds"

\* The last call left the element sequence, len and capacity as they were.
DaUnchanged ==
    /\ da_array = da_prev.array
    /\ da_len = da_prev.len
    /\ da_capacity = da_prev.capacity

\* C12: in every state reached from new or with_values by push, unshift,
\* insert, remove, set and resize calls, successful or failing, len <=
\* capacity, capacity is the number of backing slots, every slot below len
\* holds a value and every slot from len to capacity is empty.
C12_SlotsInvariant ==
    /\ da_len <= da_capacity
    /\ da_capacity = Len(da_array)
    /\ \A i \in 1 .. Len(da_array) :
           IF i <= da_len THEN da_array[i] \in Values ELSE da_array[i] = Absent

\* A resize that cut live elements off, on an array that had grown by
\* doubling.
C12_Witness ==
    /\ da_last.op = "resize"
    /\ da_prev.capacity = 8
    /\ da_prev.len = 5
    /\ da_capacity = 2
    /\ da_len = 2

\* C13: push(v) takes the capacity from 0 to 4, doubles it when len ==
\* capacity, and otherwise keeps it; v is stored at the old len, len grows by
\* exactly 1, get(len - 1) returns v and the elements below the old len are
\* as they were.
C13_PushAppends ==
    da_last.op = "push" =>
        /\ da_last.result = "Ok"
        /\ da_panic = "none"
        /\ da_capacity = IF da_prev.capacity = 0 THEN 4
                         ELSE IF da_prev.len = da_prev.capacity
                         THEN 2 * da_prev.capacity
                         ELSE da_prev.capacity
        /\ da_len = da_prev.len + 1
        /\ da_array[da_prev.len + 1] = da_last.value
        /\ da_get(da_self, da_len - 1).result = "Ok"
        /\ da_get(da_self, da_len - 1).ret = da_last.value
        /\ \A i \in 1 .. da_prev.len : da_array[i] = da_prev.array[i]

\* A push on a full array of capacity 4, so that the capacity doubled.
C13_Witness ==
    /\ da_last.op = "push"
    /\ da_prev.capacity = 4
    /\ da_prev.len = 4
    /\ da_capacity = 8
    /\ da_len = 5

\* The powers of two from 4 up to the largest capacity MaxPushes pushes need.
RECURSIVE DoublingsFrom(_)
DoublingsFrom(c) == IF c >= MaxPushes THEN {c} ELSE {c} \cup DoublingsFrom(2 * c)

\* C14: from DynamicArray::new(0), after n >= 1 pushes the capacity is a
\* power of two, at least n and at least 4: one of 4, 8, 16, ..., and the
\* smallest of them that holds n elements.
C14_PushCapacityPowerOfTwo ==
    da_len >= 1 =>
        /\ da_capacity \in DoublingsFrom(4)
        /\ da_capacity >= da_len
        /\ da_capacity >= 4
        /\ \A c \in DoublingsFrom(4) : c >= da_len => da_capacity <= c

\* Nine pushes: the capacity has doubled twice.
C14_Witness ==
    /\ da_last.op = "push"
    /\ da_len = 9
    /\ da_capacity = 16

\* C15: insert(index, v) with index >= len, index == len included, returns
\* IndexOutOfBounds and changes nothing: the elements, len and capacity are
\* as before, and a full array is not doubled on the way out.
C15_InsertOutOfBoundsChangesNothing ==
    (da_last.op = "insert" /\ da_last.index >= da_prev.len) =>
        /\ da_last.result = "IndexOutOfBounds"
        /\ da_panic = "none"
        /\ DaUnchanged
        /\ da_elements = da_prev_elements

\* insert at index == len refused on a full array that holds elements.
C15_Witness ==
    /\ DaLastErr("insert")
    /\ da_last.index = da_prev.len
    /\ da_prev.len = da_prev.capacity
    /\ da_len = 3

\* C16: insert(index, v) with index < len doubles the capacity first exactly
\* when len == capacity; afterwards the elements are the old ones with v put
\* in at index (those before index untouched, those from index on one place
\* to the right) and len has grown by exactly 1.
C16_InsertShiftsRight ==
    (da_last.op = "insert" /\ da_last.index < da_prev.len) =>
        /\ da_last.result = "Ok"
        /\ da_panic = "none"
        /\ da_capacity = IF da_prev.len = da_prev.capacity
                         THEN 2 * da_prev.capacity
                         ELSE da_prev.capacity
        /\ da_len = da_prev.len + 1
        /\ da_elements = SubSeq(da_prev_elements, 1, da_last.index)
                            \o <<da_last.value>>
                            \o SubSeq(da_prev_elements, da_last.index + 1, da_prev.len)

\* An insert in the middle of a full array: elements on both sides, and the
\* capacity doubled.
C16_Witness ==
    /\ DaLastOk("insert")
    /\ da_last.index = 1
    /\ da_prev.len = 3
    /\ da_prev.capacity = 3
    /\ da_capacity = 6
    /\ da_prev.array[2] # da_last.value

\* C17: insert(i, v) with i < len followed by remove(i) returns v and brings
\* back the element sequence and the len the array had before the two calls:
\* get returns at every index below len what it returned before.
C17_InsertRemoveRoundTrip ==
    DaLastOk("insert") =>
        LET removed == da_remove(da_self, da_last.index)
        IN  /\ removed.result = "Ok"
            /\ removed.ret = da_last.value
            /\ removed.self.panic = "none"
            /\ removed.self.len = da_prev.len
            /\ Elements(removed.self.array, removed.self.len) = da_prev_elements
            /\ \A j \in 0 .. da_prev.len - 1 :
                   /\ da_get(removed.self, j).result = "Ok"
                   /\ da_get(removed.self, j).ret = da_get(da_prev_self, j).ret

\* An insert in the middle of a full array of three elements, of a value
\* other than the one it displaced; the array doubled on the way.
C17_Witness ==
    /\ DaLastOk("insert")
    /\ da_last.index = 1
    /\ da_prev.len = 3
    /\ da_prev.capacity = 3
    /\ da_len = 4
    /\ da_array[3] # da_last.value
    /\ da_array[4] # da_array[3]

\* C18: remove(index) with index < len returns the element that was at
\* index, leaves the old elements without it (the later ones one place to
\* the left, none lost), takes 1 off len, and then halves the capacity, to
\* floor(capacity / 2), exactly when the new len is below floor(old capacity
\* / 2) and the old capacity is above 1; no live element is cut off.  With
\* index >= len it returns IndexOutOfBounds and changes nothing.
C18_RemoveShiftsLeftAndHalves ==
    da_last.op = "remove" =>
        /\ da_panic = "none"
        /\ IF da_last.index < da_prev.len
           THEN /\ da_last.result = "Ok"
                /\ da_last.ret = da_prev.array[da_last.index + 1]
                /\ da_len = da_prev.len - 1
                /\ da_len <= Len(da_array)
                /\ da_elements = SubSeq(da_prev_elements, 1, da_last.index)
                                    \o SubSeq(da_prev_elements, da_last.index + 2,
                                              da_prev.len)
                /\ da_capacity = IF /\ da_len < da_prev.capacity \div 2
                                    /\ da_prev.capacity > 1
                                 THEN da_prev.capacity \div 2
                                 ELSE da_prev.capacity
           ELSE /\ da_last.result = "IndexOutOfBounds"
                /\ DaUnchanged

\* A remove in the middle of four elements in eight slots: three are left,
\* fewer than half the slots, and the capacity is halved.
C18_Witness ==
    /\ DaLastOk("remove")
    /\ da_last.index = 1
    /\ da_prev.capacity = 8
    /\ da_prev.len = 4
    /\ da_capacity = 4
    /\ da_len = 3
    /\ da_prev.array[3] # da_prev.array[2]

\* The calls that C19 lets drive the array, with the two reads.
ElementCalls == {"push", "unshift", "insert", "set", "remove", "get", "get_mut"}

\* C19: under push, unshift, insert, set and remove alone, removing until
\* len == 0 never panics, and a capacity that is at least 1 is never taken
\* back to 0: the halving in remove stops at 1.
C19_RemovingNeverPanicsNorEmptiesCapacity ==
    da_last.op \in ElementCalls =>
        /\ da_panic = "none"
        /\ da_last.result # "panic"
        /\ da_prev.capacity >= 1 => da_capacity >= 1

\* The last element removed from an array of one slot.
C19_Witness ==
    /\ DaLastOk("remove")
    /\ da_prev.capacity = 1
    /\ da_prev.len = 1
    /\ da_len = 0
    /\ da_capacity = 1

\* C20: unshift(v) grows the array as push does (capacity 0 becomes 4, a
\* full array doubles, otherwise the capacity stays), then the elements are
\* v followed by all the old elements in their old order, and len has grown
\* by exactly 1; it never fails, an array created with capacity 0 included.
C20_UnshiftPrepends ==
    da_last.op = "unshift" =>
        /\ da_last.result = "Ok"
        /\ da_panic = "none"
        /\ da_capacity = IF da_prev.capacity = 0 THEN 4
                         ELSE IF da_prev.len = da_prev.capacity
                         THEN 2 * da_prev.capacity
                         ELSE da_prev.capacity
        /\ da_len = da_prev.len + 1
        /\ da_elements = <<da_last.value>> \o da_prev_elements
        /\ da_capacity = da_push(da_prev_self, da_last.value).self.capacity

\* An unshift on a full array of three elements, the first of which is not
\* the value put in front.
C20_Witness ==
    /\ DaLastOk("unshift")
    /\ da_prev.len = 3
    /\ da_prev.capacity = 3
    /\ da_capacity = 6
    /\ da_len = 4
    /\ da_array[1] # da_array[2]
    /\ da_array[3] # da_array[4]

\* C21: with_values(capacity, values) makes an array of the given capacity
\* whose len is min(len(values), capacity), where get(i) is values[i] for
\* every i < len and fails for every i >= len; the values beyond capacity
\* are dropped without a failure, capacity 0 included.
C21_WithValuesTakesThePrefix ==
    da_last.op = "with_values" =>
        /\ da_last.result = "Ok"
        /\ da_panic = "none"
        /\ da_capacity = da_last.capacity
        /\ da_len = IF Len(da_last.values) < da_last.capacity
                    THEN Len(da_last.values) ELSE da_last.capacity
        /\ \A i \in 0 .. MaxLen :
               IF i < da_len
               THEN /\ da_get(da_self, i).result = "Ok"
                    /\ da_get(da_self, i).ret = da_last.values[i + 1]
               ELSE da_get(da_self, i).result = "IndexOutOfBounds"

\* More values than slots: the last ones are dropped.
C21_Witness ==
    /\ da_last.op = "with_values"
    /\ da_last.capacity = 2
    /\ Len(da_last.values) = 4
    /\ da_len = 2
    /\ da_last.values[3] # da_last.values[2]

\* C22: for every i < len, get(i) returns the value that the last set, push,
\* unshift, insert or shift left at position i; set(i, v) with i < len makes
\* get(i) return v and changes neither len, nor capacity, nor any other
\* index; get, get_mut and set with i >= len, even with i < capacity, return
\* IndexOutOfBounds and change nothing.
C22_GetSetWithinLen ==
    /\ \A i \in 0 .. da_len - 1 :
           /\ da_get(da_self, i).result = "Ok"
           /\ da_get(da_self, i).ret = da_elements[i + 1]
    /\ da_last.op \in {"get", "get_mut"} =>
           /\ DaUnchanged
           /\ da_panic = "none"
           /\ IF da_last.index < da_prev.len
              THEN /\ da_last.result = "Ok"
                   /\ da_last.ret = da_prev_elements[da_last.index + 1]
              ELSE da_last.result = "IndexOutOfBounds"
    /\ da_last.op = "set" =>
           /\ da_panic = "none"
           /\ da_len = da_prev.len
           /\ da_capacity = da_prev.capacity
           /\ IF da_last.index < da_prev.len
              THEN /\ da_last.result = "Ok"
                   /\ da_get(da_self, da_last.index).ret = da_last.value
                   /\ \A j \in 1 .. Len(da_array) :
                          j # da_last.index + 1 => da_array[j] = da_prev.array[j]
              ELSE /\ da_last.result = "IndexOutOfBounds"
                   /\ DaUnchanged

\* A set refused at an index that has a slot but no element, on an array
\* that holds elements.
C22_Witness ==
    /\ DaLastErr("set")
    /\ da_last.index = 2
    /\ da_len = 2
    /\ da_capacity = 3

\* ---------------------------------------------------------------------------
\* Traversal of a DynamicArray (impl Iterator, derive Clone, impl Debug)
\* ---------------------------------------------------------------------------

\* Iterator::next: the array is its own iterator, its cursor is `current`.
da_next(a) ==
    IF a.current < a.len
    THEN LET moved == [a EXCEPT !.current = @ + 1]
         IN  IF moved.current - 1 < Len(moved.array)
             THEN Result(moved,
                         IF At(moved.array, moved.current - 1) = Absent
                         THEN "None" ELSE "Some",
                         At(moved.array, moved.current - 1))
             ELSE Result([moved EXCEPT !.panic = "index_out_of_bounds"], "panic", NoValue)
    ELSE Result(a, "None", NoValue)

\* #[derive(Clone)]: every field is copied, the cursor too.
da_clone(a) ==
    [array |-> a.array, len |-> a.len, capacity |-> a.capacity,
     current |-> a.current, panic |-> a.panic]

\* The items an iterator gives until its first None.
RECURSIVE da_collect(_)
da_collect(a) ==
    IF da_next(a).result = "Some"
    THEN <<da_next(a).ret>> \o da_collect(da_next(a).self)
    ELSE <<>>

\* Debug::fmt: the values written between the brackets, those that
\* self.clone().enumerate() gives.
da_fmt(a) == da_collect(da_clone(a))

DynamicArrayNext ==
    DynamicArrayCall("next", 0, NoValue, 0, da_next(da_self))

DynamicArrayFmt ==
    /\ da_panic = "none"
    /\ UNCHANGED <<ht_vars, sl_vars, sa_vars>>
    /\ UNCHANGED <<da_array, da_len, da_capacity, da_current, da_panic>>
    /\ da_prev' = [array |-> da_array, len |-> da_len, capacity |-> da_capacity,
                   current |-> da_current]
    /\ da_last' = [op |-> "fmt", index |-> 0, value |-> NoValue, capacity |-> 0,
                   values |-> da_fmt(da_self), result |-> "Ok", ret |-> NoValue]

\* The calls of SpecDynamicArray, with traversal steps and printing between
\* them.
NextTraversal ==
    \/ NextDynamicArray
    \/ DynamicArrayNext
    \/ DynamicArrayFmt

SpecTraversal == InitDynamicArray /\ [][NextTraversal]_vars

\* C23: a traversal gives the live elements at indices 0 .. len - 1 in index
\* order and then ends, and it can be started again: a traversal of a clone
\* of the array, which is what the Debug printer does, begins at index 0 and
\* gives all len elements, however far the array itself has been traversed
\* and whatever calls were made in between.
C23_TraversalRestartsFromSnapshot ==
    /\ da_last.op = "next" =>
           IF da_prev.current < da_prev.len
           THEN /\ da_last.result = "Some"
                /\ da_last.ret = da_prev_elements[da_prev.current + 1]
           ELSE da_last.result = "None"
    /\ da_last.op = "fmt" => da_last.values = da_prev_elements

\* C24: resize(n) sets the capacity to n and len to min(old len, n), keeps
\* the elements below the new len as they were and in order, drops only the
\* elements at indices >= n, and leaves every slot from the new len on
\* empty; growing never changes len, and resize(0) empties the array.
C24_ResizeKeepsThePrefix ==
    da_last.op = "resize" =>
        /\ da_last.result = "Ok"
        /\ da_panic = "none"
        /\ da_capacity = da_last.capacity
        /\ Len(da_array) = da_last.capacity
        /\ da_len = IF da_prev.len < da_last.capacity
                    THEN da_prev.len ELSE da_last.capacity
        /\ \A i \in 1 .. Len(da_array) :
               IF i <= da_len THEN da_array[i] = da_prev.array[i]
               ELSE da_array[i] = Absent
        /\ da_last.capacity >= da_prev.capacity => da_len = da_prev.len
        /\ da_last.capacity = 0 => da_len = 0 /\ da_array = <<>>

\* A resize to two slots of an array of four elements.
C24_Witness ==
    /\ da_last.op = "resize"
    /\ da_last.capacity = 2
    /\ da_prev.len = 4
    /\ da_len = 2
    /\ da_array[1] # da_array[2]
    /\ da_prev.array[3] # da_prev.array[2]

\* ===========================================================================
\* Part 3.  SinglyLinkedList (src/linked_list/src/singly_linked_list/mod.rs)
\* ===========================================================================
\*
\* The list is the record [head, len, panic]: `head` is the chain of boxed
\* nodes written as the sequence of their data (<<>> is None, and a node's
\* `next` is the rest of the sequence), `len` is the struct's counter, which
\* the code keeps by hand, and `panic` is "none" until len - 1 underflows.
\* An error is modelled by its kind; the text carried by NoSuchElement is
\* left out.  The methods' names carry the prefix sl_.

MaxNodes == 4

SinglyLinkedList(head, len) == [head |-> head, len |-> len, panic |-> "none"]

sl_new == SinglyLinkedList(<<>>, 0)

sl_with_data(data) == SinglyLinkedList(<<data>>, 1)

\* self.len -= 1
len_decremented(l) ==
    IF l.len = 0 THEN [l EXCEPT !.panic = "subtract_with_overflow"]
    ELSE [l EXCEPT !.len = @ - 1]

\* The loop of get, get_mut and set: the number of nodes passed when the
\* counter i reaches index, or -1 when the chain ends first.
RECURSIVE walk_to(_, _, _)
walk_to(pred, i, index) ==
    IF pred = <<>> THEN -1
    ELSE IF i = index THEN i
    ELSE walk_to(Tail(pred), i + 1, index)

sl_get(l, index) ==
    IF index >= l.len THEN Result(l, "IndexOutOfBounds", NoValue)
    ELSE IF walk_to(l.head, 0, index) >= 0
    THEN Result(l, "Ok", At(l.head, walk_to(l.head, 0, index)))
    ELSE Result(l, "NoSuchElement", NoValue)

sl_get_mut(l, index) ==
    IF index >= l.len THEN Result(l, "IndexOutOfBounds", NoValue)
    ELSE IF walk_to(l.head, 0, index) >= 0
    THEN Result(l, "Ok", At(l.head, walk_to(l.head, 0, index)))
    ELSE Result(l, "NoSuchElement", NoValue)

sl_set(l, index, value) ==
    IF index >= l.len THEN Result(l, "IndexOutOfBounds", NoValue)
    ELSE IF walk_to(l.head, 0, index) >= 0
    THEN Result([l EXCEPT !.head[walk_to(l.head, 0, index) + 1] = value], "Ok", NoValue)
    ELSE Result(l, "NoSuchElement", NoValue)

sl_is_empty(l) == l.len = 0

sl_len_of(l) == l.len

sl_unshift(l, value) ==
    Result([l EXCEPT !.head = <<value>> \o l.head, !.len = @ + 1], "Ok", NoValue)

\* push: a new head when is_empty(); otherwise the walk to the node that has
\* no next, which does nothing at all when there is no node.
sl_push(l, value) ==
    IF sl_is_empty(l)
    THEN Result([l EXCEPT !.head = <<value>>, !.len = @ + 1], "Ok", NoValue)
    ELSE IF l.head = <<>> THEN Result(l, "Ok", NoValue)
    ELSE Result([l EXCEPT !.head = Append(l.head, value), !.len = @ + 1], "Ok", NoValue)

sl_insert(l, index, value) ==
    IF index >= l.len THEN Result(l, "IndexOutOfBounds", NoValue)
    ELSE IF index > 0
    THEN IF walk_to(l.head, 0, index - 1) >= 0
         THEN Result([l EXCEPT !.head = SubSeq(l.head, 1, index) \o <<value>>
                                           \o SubSeq(l.head, index + 1, Len(l.head)),
                               !.len = @ + 1], "Ok", NoValue)
         ELSE Result(l, "IndexOutOfBounds", NoValue)
    ELSE Result(sl_unshift(l, value).self, "Ok", NoValue)

sl_shift(l) ==
    IF l.head = <<>> THEN Result(l, "NoSuchElement", NoValue)
    ELSE Returned(len_decremented([l EXCEPT !.head = Tail(l.head)]), "Ok", Head(l.head))

\* The loop of pop over the nodes after the first: `taken` is the list after
\* self.head.take(), `list` the copy being built, `rest` the chain from
\* pred.get_next_mut().
RECURSIVE pop_loop(_, _, _)
pop_loop(taken, list, rest) ==
    IF rest = <<>> THEN Result(taken, "NoSuchElement", NoValue)
    ELSE IF Tail(rest) = <<>>
    THEN Returned(len_decremented([taken EXCEPT !.head = list.head]), "Ok", Head(rest))
    ELSE pop_loop(taken, sl_push(list, Head(rest)).self, Tail(rest))

sl_pop(l) ==
    IF l.head = <<>> THEN Result(l, "NoSuchElement", NoValue)
    ELSE IF Tail(l.head) = <<>>
    THEN Returned(len_decremented([l EXCEPT !.head = <<>>]), "Ok", Head(l.head))
    ELSE pop_loop([l EXCEPT !.head = <<>>], sl_push(sl_new, Head(l.head)).self,
                  Tail(l.head))

\* The loop of remove over the nodes after the first: the copy built so far
\* and last_node (<<>> is None) once the chain has been walked to its end.
RECURSIVE remove_loop(_, _, _, _, _)
remove_loop(list, rest, i, index, last_node) ==
    IF rest = <<>> THEN [list |-> list, last_node |-> last_node]
    ELSE IF i = index - 1
    THEN remove_loop(list, Tail(rest), i + 1, index, <<Head(rest)>>)
    ELSE remove_loop(sl_push(list, Head(rest)).self, Tail(rest), i + 1, index, last_node)

\* remove: self.head.take() empties the list before anything is looked at;
\* only the index 0 branch and the found branch give it a head again.
sl_remove(l, index) ==
    IF l.head = <<>> THEN Result(l, "NoSuchElement", NoValue)
    ELSE IF index = 0 THEN sl_shift(l)
    ELSE LET taken == [l EXCEPT !.head = <<>>]
             walked == remove_loop(sl_push(sl_new, Head(l.head)).self, Tail(l.head),
                                   0, index, <<>>)
         IN  IF walked.last_node # <<>>
             THEN Returned(len_decremented([taken EXCEPT !.head = walked.list.head]),
                           "Ok", walked.last_node[1])
             ELSE Result(taken, "NoSuchElement", NoValue)

\* The loop of insert_after: the position (from 1) of the first node whose
\* data is pred_value, or 0.
RECURSIVE first_with(_, _, _)
first_with(pred, pred_value, passed) ==
    IF pred = <<>> THEN 0
    ELSE IF Head(pred) = pred_value THEN passed + 1
    ELSE first_with(Tail(pred), pred_value, passed + 1)

sl_insert_after(l, pred_value, value) ==
    IF first_with(l.head, pred_value, 0) > 0
    THEN Result([l EXCEPT !.head = SubSeq(l.head, 1, first_with(l.head, pred_value, 0))
                                      \o <<value>>
                                      \o SubSeq(l.head, first_with(l.head, pred_value, 0) + 1,
                                                Len(l.head)),
                          !.len = @ + 1], "Ok", NoValue)
    ELSE Result(l, "NoSuchElement", NoValue)

\* ---------------------------------------------------------------------------
\* The SinglyLinkedList state machine
\* ---------------------------------------------------------------------------
\*
\* One action per public method.  sl_last records the call just made and
\* sl_prev the list it was made on.  The list grows while len is below
\* MaxNodes.

sl_self == [head |-> sl_head, len |-> sl_len, panic |-> sl_panic]

sl_prev_self == [head |-> sl_prev.head, len |-> sl_prev.len, panic |-> "none"]

SinglyLinkedListCreated(op, value, l) ==
    /\ HashTableIdle
    /\ DynamicArrayIdle
    /\ StaticArrayIdle
    /\ sl_head = l.head
    /\ sl_len = l.len
    /\ sl_panic = l.panic
    /\ sl_last = [op |-> op, index |-> 0, value |-> value, pred_value |-> NoValue,
                  result |-> "Ok", ret |-> NoValue]
    /\ sl_prev = [head |-> <<>>, len |-> 0]

SinglyLinkedListCall(op, index, value, pred_value, o) ==
    /\ sl_panic = "none"
    /\ UNCHANGED <<ht_vars, da_vars, sa_vars>>
    /\ sl_prev' = [head |-> sl_head, len |-> sl_len]
    /\ sl_head' = o.self.head
    /\ sl_len' = o.self.len
    /\ sl_panic' = o.self.panic
    /\ sl_last' = [op |-> op, index |-> index, value |-> value,
                   pred_value |-> pred_value, result |-> o.result, ret |-> o.ret]

SinglyLinkedListGet(index) ==
    SinglyLinkedListCall("get", index, NoValue, NoValue, sl_get(sl_self, index))
SinglyLinkedListGetMut(index) ==
    SinglyLinkedListCall("get_mut", index, NoValue, NoValue, sl_get_mut(sl_self, index))
SinglyLinkedListSet(index, value) ==
    SinglyLinkedListCall("set", index, value, NoValue, sl_set(sl_self, index, value))
SinglyLinkedListUnshift(value) ==
    SinglyLinkedListCall("unshift", 0, value, NoValue, sl_unshift(sl_self, value))
SinglyLinkedListPush(value) ==
    SinglyLinkedListCall("push", 0, value, NoValue, sl_push(sl_self, value))
SinglyLinkedListInsert(index, value) ==
    SinglyLinkedListCall("insert", index, value, NoValue, sl_insert(sl_self, index, value))
SinglyLinkedListInsertAfter(pred_value, value) ==
    SinglyLinkedListCall("insert_after", 0, value, pred_value,
                         sl_insert_after(sl_self, pred_value, value))
SinglyLinkedListShift ==
    SinglyLinkedListCall("shift", 0, NoValue, NoValue, sl_shift(sl_self))
SinglyLinkedListPop ==
    SinglyLinkedListCall("pop", 0, NoValue, NoValue, sl_pop(sl_self))
SinglyLinkedListRemove(index) ==
    SinglyLinkedListCall("remove", index, NoValue, NoValue, sl_remove(sl_self, index))

InitSinglyLinkedList ==
    \/ SinglyLinkedListCreated("new", NoValue, sl_new)
    \/ \E data \in Values : SinglyLinkedListCreated("with_data", data, sl_with_data(data))

NextSinglyLinkedList ==
    \/ \E index \in 0 .. MaxNodes : SinglyLinkedListGet(index)
    \/ \E index \in 0 .. MaxNodes : SinglyLinkedListGetMut(index)
    \/ \E index \in 0 .. MaxNodes, value \in Values : SinglyLinkedListSet(index, value)
    \/ sl_len < MaxNodes /\ \E value \in Values : SinglyLinkedListUnshift(value)
    \/ sl_len < MaxNodes /\ \E value \in Values : SinglyLinkedListPush(value)
    \/ sl_len < MaxNodes /\ \E index \in 0 .. MaxNodes, value \in Values :
                                SinglyLinkedListInsert(index, value)
    \/ sl_len < MaxNodes /\ \E pred_value \in Values, value \in Values :
                                SinglyLinkedListInsertAfter(pred_value, value)
    \/ SinglyLinkedListShift
    \/ SinglyLinkedListPop
    \/ \E index \in 0 .. MaxNodes : SinglyLinkedListRemove(index)

SpecSinglyLinkedList == InitSinglyLinkedList /\ [][NextSinglyLinkedList]_vars

\* ---------------------------------------------------------------------------
\* Vocabulary of the SinglyLinkedList claims
\* ---------------------------------------------------------------------------

\* The last call on the list was op and it returned Ok.
SlLastOk(op) == sl_last.op = op /\ sl_last.result = "Ok"

\* The last call left the nodes and len as they were.
SlUnchanged == sl_head = sl_prev.head /\ sl_len = sl_prev.len

\* A sequence without its element at position i (from 1).
Dropped(s, i) == SubSeq(s, 1, i - 1) \o SubSeq(s, i + 1, Len(s))

\* C25: remove(index) with index >= len(), on an empty list or not, fails
\* with IndexOutOfBounds and leaves the list as it was: the same elements in
\* the same order and the same len().
C25_RemoveOutOfBoundsChangesNothing ==
    (sl_last.op = "remove" /\ sl_last.index >= sl_prev.len) =>
        /\ sl_last.result = "IndexOutOfBounds"
        /\ SlUnchanged

\* C26: insert(index, value) accepts every index in 0 ..= len, index == len
\* appending at the end, and returns IndexOutOfBounds only when index > len;
\* on success the value is at position index, the former elements from index
\* on follow it in order, and len has grown by 1.
C26_InsertAcceptsUpToLen ==
    sl_last.op = "insert" =>
        IF sl_last.index <= sl_prev.len
        THEN /\ sl_last.result = "Ok"
             /\ sl_len = sl_prev.len + 1
             /\ sl_head = SubSeq(sl_prev.head, 1, sl_last.index) \o <<sl_last.value>>
                             \o SubSeq(sl_prev.head, sl_last.index + 1, Len(sl_prev.head))
        ELSE sl_last.result = "IndexOutOfBounds"

\* C27: on a valid target shift() returns the first element, pop() the last
\* and remove(i), i < len, the element at position i; each leaves the other
\* elements in their order and takes exactly 1 off len; shift() and pop() on
\* an empty list return NoSuchElement and leave it empty.  A valid target is
\* one that len() and is_empty() say is there.
C27_RemovalsTakeOneElement ==
    /\ (sl_last.op = "shift" /\ sl_prev.len > 0) =>
           /\ sl_last.result = "Ok"
           /\ sl_last.ret = sl_prev.head[1]
           /\ sl_head = Dropped(sl_prev.head, 1)
           /\ sl_len = sl_prev.len - 1
    /\ (sl_last.op = "pop" /\ sl_prev.len > 0) =>
           /\ sl_last.result = "Ok"
           /\ sl_last.ret = sl_prev.head[Len(sl_prev.head)]
           /\ sl_head = Dropped(sl_prev.head, Len(sl_prev.head))
           /\ sl_len = sl_prev.len - 1
    /\ (sl_last.op = "remove" /\ sl_last.index < sl_prev.len) =>
           /\ sl_last.result = "Ok"
           /\ sl_last.ret = sl_prev.head[sl_last.index + 1]
           /\ sl_head = Dropped(sl_prev.head, sl_last.index + 1)
           /\ sl_len = sl_prev.len - 1
    /\ (sl_last.op \in {"shift", "pop"} /\ sl_prev.len = 0) =>
           /\ sl_last.result = "NoSuchElement"
           /\ sl_head = <<>>
           /\ sl_len = 0

\* C30: after any sequence of unshift, push, insert, insert_after, shift,
\* pop, remove and set calls, successful or failing, len() is the number of
\* nodes reachable from the head, and is_empty() is true exactly when there
\* is no node.
C30_LenCountsTheNodes ==
    /\ sl_len_of(sl_self) = Len(sl_head)
    /\ sl_is_empty(sl_self) <=> sl_head = <<>>

\* ===========================================================================
\* Part 4.  StaticArray (src/array/src/static_array/mod.rs)
\* ===========================================================================
\*
\* The same record as the DynamicArray's, [array, len, capacity, current,
\* panic], and the same slice helpers (slice_get, index_mut, shift_right,
\* shift_left).  The methods' names carry the prefix sa_.

StaticArray(array, len, capacity, current) ==
    [array |-> array, len |-> len, capacity |-> capacity, current |-> current,
     panic |-> "none"]

sa_new(capacity) ==
    StaticArray([i \in 1 .. capacity |-> Absent], 0, capacity, 0)

sa_with_values(capacity, values) ==
    StaticArray([i \in 1 .. capacity |->
                    IF i <= Len(values) THEN values[i] ELSE Absent],
                IF Len(values) < capacity THEN Len(values) ELSE capacity,
                capacity, 0)

sa_get(a, index) ==
    IF index >= a.len THEN Result(a, "IndexOutOfBounds", NoValue)
    ELSE IF slice_get(a.array, index) = <<>> THEN Result(a, "IndexOutOfBounds", NoValue)
    ELSE IF slice_get(a.array, index)[1] = Absent THEN Result(a, "IndexOutOfBounds", NoValue)
    ELSE Result(a, "Ok", slice_get(a.array, index)[1])

sa_get_mut(a, index) ==
    IF index >= a.len THEN Result(a, "IndexOutOfBounds", NoValue)
    ELSE IF slice_get(a.array, index) = <<>> THEN Result(a, "IndexOutOfBounds", NoValue)
    ELSE IF slice_get(a.array, index)[1] = Absent THEN Result(a, "IndexOutOfBounds", NoValue)
    ELSE Result(a, "Ok", slice_get(a.array, index)[1])

sa_set(a, index, value) ==
    IF index >= a.len THEN Result(a, "IndexOutOfBounds", NoValue)
    ELSE Result(index_mut(a, index, value), "Ok", NoValue)

\* let size = if self.len + 1 < self.capacity { self.len + 1 } else { self.capacity }
shifted_size(a) == IF a.len + 1 < a.capacity THEN a.len + 1 ELSE a.capacity

\* if self.len < self.capacity { self.len += 1 }
len_incremented(a) ==
    IF a.panic = "none" /\ a.len < a.capacity THEN [a EXCEPT !.len = @ + 1] ELSE a

sa_unshift(a, value) ==
    LET shifted == shift_right(a, a.array, 1, shifted_size(a) - 1)
        stored == index_mut(shifted, 0, value)
    IN  Returned(len_incremented(stored), "Ok", NoValue)

sa_push(a, value) ==
    IF a.len = a.capacity THEN Result(a, "IndexOutOfBounds", NoValue)
    ELSE LET stored == index_mut(a, a.len, value)
         IN  Returned(IF stored.panic = "none" THEN [stored EXCEPT !.len = @ + 1]
                      ELSE stored, "Ok", NoValue)

sa_insert(a, index, value) ==
    IF index >= a.len THEN Result(a, "IndexOutOfBounds", NoValue)
    ELSE LET shifted == shift_right(a, a.array, index + 1, shifted_size(a) - 1)
             stored == index_mut(shifted, index, value)
         IN  Returned(len_incremented(stored), "Ok", NoValue)

sa_remove(a, index) ==
    IF index >= a.len THEN Result(a, "IndexOutOfBounds", NoValue)
    ELSE IF slice_get(a.array, index) = <<>> THEN Result(a, "IndexOutOfBounds", NoValue)
    ELSE IF slice_get(a.array, index)[1] = Absent
    THEN Result(a, "IndexOutOfBounds", NoValue)
    ELSE IF a.len > Len(a.array)
    THEN Result([a EXCEPT !.panic = "slice_index_out_of_bounds"], "panic", NoValue)
    ELSE LET value == slice_get(a.array, index)[1]
             slice == SubSeq(a.array, index + 2, a.len)
             shifted == shift_left(a, slice, index, 0)
             cleared == index_mut(shifted, a.len - 1, Absent)
         IN  Returned(IF cleared.panic = "none" THEN [cleared EXCEPT !.len = @ - 1]
                      ELSE cleared, "Ok", value)

sa_len_of(a) == a.len

sa_capacity_of(a) == a.capacity

sa_is_empty(a) == a.len = 0

\* ---------------------------------------------------------------------------
\* The StaticArray state machine
\* ---------------------------------------------------------------------------

sa_self ==
    [array |-> sa_array, len |-> sa_len, capacity |-> sa_capacity,
     current |-> sa_current, panic |-> sa_panic]

StaticArrayCreated(op, capacity, values, a) ==
    /\ HashTableIdle
    /\ DynamicArrayIdle
    /\ SinglyLinkedListIdle
    /\ sa_array = a.array
    /\ sa_len = a.len
    /\ sa_capacity = a.capacity
    /\ sa_current = a.current
    /\ sa_panic = a.panic
    /\ sa_last = [op |-> op, index |-> 0, value |-> NoValue, capacity |-> capacity,
                  values |-> values, result |-> "Ok", ret |-> NoValue]
    /\ sa_prev = [array |-> <<>>, len |-> 0, capacity |-> capacity, current |-> 0]

StaticArrayCall(op, index, value, o) ==
    /\ sa_panic = "none"
    /\ UNCHANGED <<ht_vars, da_vars, sl_vars>>
    /\ sa_prev' = [array |-> sa_array, len |-> sa_len, capacity |-> sa_capacity,
                   current |-> sa_current]
    /\ sa_array' = o.self.array
    /\ sa_len' = o.self.len
    /\ sa_capacity' = o.self.capacity
    /\ sa_current' = o.self.current
    /\ sa_panic' = o.self.panic
    /\ sa_last' = [op |-> op, index |-> index, value |-> value, capacity |-> 0,
                   values |-> <<>>, result |-> o.result, ret |-> o.ret]

StaticArrayGet(index) == StaticArrayCall("get", index, NoValue, sa_get(sa_self, index))
StaticArrayGetMut(index) ==
    StaticArrayCall("get_mut", index, NoValue, sa_get_mut(sa_self, index))
StaticArraySet(index, value) ==
    StaticArrayCall("set", index, value, sa_set(sa_self, index, value))
StaticArrayUnshift(value) == StaticArrayCall("unshift", 0, value, sa_unshift(sa_self, value))
StaticArrayPush(value) == StaticArrayCall("push", 0, value, sa_push(sa_self, value))
StaticArrayInsert(index, value) ==
    StaticArrayCall("insert", index, value, sa_insert(sa_self, index, value))
StaticArrayRemove(index) ==
    StaticArrayCall("remove", index, NoValue, sa_remove(sa_self, index))

\* Arrays made by new and with_values with 0 to MaxCapacity slots, then any
\* calls.
InitStaticArray ==
    \E capacity \in 0 .. MaxCapacity :
        \/ StaticArrayCreated("new", capacity, <<>>, sa_new(capacity))
        \/ \E values \in ValueLists :
               StaticArrayCreated("with_values", capacity, values,
                                  sa_with_values(capacity, values))

NextStaticArray ==
    \/ \E index \in 0 .. MaxCapacity : StaticArrayGet(index)
    \/ \E index \in 0 .. MaxCapacity : StaticArrayGetMut(index)
    \/ \E index \in 0 .. MaxCapacity, value \in Values : StaticArraySet(index, value)
    \/ \E value \in Values : StaticArrayUnshift(value)
    \/ \E value \in Values : StaticArrayPush(value)
    \/ \E index \in 0 .. MaxCapacity, value \in Values : StaticArrayInsert(index, value)
    \/ \E index \in 0 .. MaxCapacity : StaticArrayRemove(index)

SpecStaticArray == InitStaticArray /\ [][NextStaticArray]_vars

\* C28: a StaticArray keeps its capacity: after any push, unshift, insert,
\* remove and set calls capacity() is the capacity it was made with and len
\* <= capacity; push on a full array returns IndexOutOfBounds and changes
\* nothing; unshift(v) on a full array, whatever the capacity, drops the last
\* element, keeps len == capacity and puts v at index 0 with the other
\* elements one place to the right.
C28_StaticArrayKeepsCapacity ==
    /\ sa_capacity_of(sa_self) = sa_prev.capacity
    /\ sa_len <= sa_capacity
    /\ (sa_last.op = "push" /\ sa_prev.len = sa_prev.capacity) =>
           /\ sa_last.result = "IndexOutOfBounds"
           /\ sa_array = sa_prev.array
           /\ sa_len = sa_prev.len
    /\ (sa_last.op = "unshift" /\ sa_prev.len = sa_prev.capacity) =>
           /\ sa_panic = "none"
           /\ sa_last.result = "Ok"
           /\ sa_len = sa_capacity
           /\ sa_array = <<sa_last.value>> \o SubSeq(sa_prev.array, 1, sa_prev.len - 1)

\* ---------------------------------------------------------------------------
\* The order rehashing leaves in the chains
\* ---------------------------------------------------------------------------

\* The (key, value) pairs of a chain, in chain order.
ChainPairs(chain) == [j \in 1 .. Len(chain) |-> <<chain[j].key, chain[j].value>>]

\* C29: rehashing(m) re-inserts the entries in the old enumeration order, old
\* bucket index ascending and then old chain position: every chain of the new
\* table holds its entries in the order that enumeration has them, so that a
\* new chain fed by several old buckets is their concatenation in bucket
\* order (the demo's old buckets 0 and 3, 1 and 4, 2 and 5 going from 6
\* buckets to 3).
C29_RehashingKeepsEnumerationOrder ==
    (last.op = "rehashing" /\ last.capacity >= 1) =>
        /\ LastOk
        /\ \A b \in 1 .. Len(buckets) :
               ChainPairs(buckets[b]) =
                   SelectSeq(InOrder(prev_buckets),
                             LAMBDA p : key_hash[p[1]] % Len(buckets) = b - 1)

\* Three buckets rehashed to one: the new chain is old bucket 0 followed by
\* old bucket 1, two entries each.
C29_Witness ==
    /\ last.op = "rehashing"
    /\ last.result = "Ok"
    /\ Len(prev_buckets) = 3
    /\ Len(prev_buckets[1]) = 2
    /\ Len(prev_buckets[2]) = 2
    /\ Len(buckets) = 1
    /\ ChainPairs(buckets[1]) = ChainPairs(prev_buckets[1]) \o ChainPairs(prev_buckets[2])
====
